---- MODULE Spec2Model ----
(***************************************************************************)
(* google-sheets-utils: the GoogleSheetsUtils facade (src/src/index.ts).   *)
(*                                                                         *)
(* Part I  models the static singleton bookkeeping: create / getInstance,  *)
(*         with each asynchronous call split at its await points.          *)
(* Part II models the sheet operations: the metadata lookups and the       *)
(*         resolve-then-act methods, against one remote spreadsheet file.  *)
(***************************************************************************)
EXTENDS Integers, Sequences, FiniteSets, TLC

(***************************************************************************)
(* Part I: create / getInstance                                            *)
(***************************************************************************)

\* Number of getInstance calls made in one run.
MaxCalls == 2

Calls == 1..MaxCalls

\* The empty static slot (`instance` undefined) and the undefined reference.
None == 0

\* The JavaScript value undefined, as a property value.
Undefined == "undefined"

\* The default auth scope create() fills in.
DefaultScopes == "https://www.googleapis.com/auth/spreadsheets"

\* A GoogleAuthOptions object is its list of own properties <<key, value>> in
\* insertion order (the order JSON.stringify walks them in).
ProjectIds == {"a", Undefined}

ScopeValues == {"readonly", Undefined}

KeyOrders ==
    { <<>>, <<"projectId">>, <<"scopes">>,
      <<"projectId", "scopes">>, <<"scopes", "projectId">> }

PropValues(k) == IF k = "projectId" THEN ProjectIds ELSE ScopeValues

\* The option objects a caller can construct.
Configs ==
    UNION { { [i \in 1..Len(ks) |-> <<ks[i], v[i]>>] :
                v \in { w \in [1..Len(ks) -> ProjectIds \cup ScopeValues] :
                          \A i \in 1..Len(ks) : w[i] \in PropValues(ks[i]) } } :
            ks \in KeyOrders }

HasKey(o, k) == \E i \in DOMAIN o : o[i][1] = k

Get(o, k) ==
    IF HasKey(o, k) THEN o[CHOOSE i \in DOMAIN o : o[i][1] = k][2] ELSE Undefined

\* create(), lines 39-40: `scopes = scopes ?? [default]`, written into the
\* caller's own object. An existing key keeps its place, a new key is appended.
DefaultedOptions(o) ==
    IF Get(o, "scopes") # Undefined THEN o
    ELSE IF HasKey(o, "scopes")
         THEN [i \in DOMAIN o |->
                 IF o[i][1] = "scopes" THEN <<"scopes", DefaultScopes>> ELSE o[i]]
         ELSE Append(o, <<"scopes", DefaultScopes>>)

IsDefined(p) == p[2] # Undefined

\* JSON.stringify of an object: its members in insertion order, the
\* undefined-valued ones dropped. JSON.stringify(undefined) is undefined.
JSONstringify(h, ref) ==
    IF ref = None THEN [defined |-> FALSE, members |-> <<>>]
    ELSE [defined |-> TRUE, members |-> SelectSeq(h[ref], IsDefined)]

\* The same text for an object given by value.
JSONtext(o) == [defined |-> TRUE, members |-> SelectSeq(o, IsDefined)]

ConfigConflictOnlyIfRecorded(h, o, rec) ==
    /\ o # None
    /\ rec # None
    /\ JSONstringify(h, o) # JSONstringify(h, rec)

\* getInstance(), line 56: the guard of the else-if branch.
ConfigConflict(h, o, rec) ==
    /\ o # None
    /\ JSONstringify(h, o) # JSONstringify(h, rec)

SlotFirstWins(current, created) == IF current = None THEN created ELSE current

\* getInstance(), line 54: the slot is assigned what create() returned.
SlotAfterCreate(current, created) == created

OptionsAlwaysRecorded(ok, rec, o) == o

OptionsRecordedOnce(ok, rec, o) ==
    IF ok /\ rec = None THEN o ELSE rec

\* getInstance(), lines 54-55: the options are recorded after the awaited
\* create() returned; when it throws, line 55 is not reached.
OptionsAfterCreate(ok, rec, o) == IF ok THEN o ELSE rec

VARIABLES
    instance,                   \* static instance: None or an instance
    singletonGoogleAuthOptions, \* static options: None or an object reference
    instances,                  \* the GoogleSheetsUtils objects constructed
    heap,                       \* option objects: reference -> properties
    pc,                         \* where each getInstance call stands
    googleAuthOptions,          \* each call's argument: None or a reference
    result,                     \* how each call settled
    returned,                   \* the instance each call resolved with
    microtasks,                 \* continuations ready to run, in order
    populatedAtEntry,           \* history: the slot was set when the call began
    supplied,                   \* history: the argument's contents at the call
    createOrder,                \* history: calls in the order create() returned
    slotWrites,                 \* history: number of assignments to the slot
    overlapped                  \* history: some call began during another

varsI ==
    << instance, singletonGoogleAuthOptions, instances, heap, pc,
       googleAuthOptions, result, returned, microtasks, populatedAtEntry,
       supplied, createOrder, slotWrites, overlapped >>

VARIABLES
    sheets,         \* the remote file: its sheets in index order
    op,             \* the method running and its arguments
    opPc,           \* "idle", "lookup", "act" or "done"
    sheetId,        \* the method's local sheetId
    existingSheets, \* data.sheets of the metadata response
    requests,       \* the remote calls the method has sent, in order
    opResult,       \* how the method settled
    opValue,        \* the sheetId a lookup method resolved with
    actTarget       \* history: the target's title when the service acted

varsS ==
    << sheets, op, opPc, sheetId, existingSheets, requests, opResult, opValue,
       actTarget >>

InFlight(c) == pc[c] \in {"awaitClient", "createReturned", "createThrew"}

\* A call of getInstance(o) up to its first suspension. o is None (no
\* argument), the reference of an object passed before, or c itself: a new
\* object with the contents `fresh`. With the slot empty this runs into
\* create() as far as `await google.auth.getClient(...)`; otherwise it runs
\* to the throw or to the return.
getInstance(c, o, fresh) ==
    /\ pc[c] = "idle"
    /\ \A d \in Calls : d < c => pc[d] # "idle"
    /\ o \in {None, c} \cup DOMAIN heap
    /\ o # c => fresh = <<>>
    /\ LET h1 == IF o = c THEN (c :> fresh) @@ heap ELSE heap IN
       /\ googleAuthOptions' = [googleAuthOptions EXCEPT ![c] = o]
       /\ supplied' = [supplied EXCEPT ![c] = IF o = None THEN <<>> ELSE h1[o]]
       /\ populatedAtEntry' = [populatedAtEntry EXCEPT ![c] = instance # None]
       /\ overlapped' = (overlapped \/ \E d \in Calls : InFlight(d))
       /\ IF instance = None
          THEN /\ heap' = IF o = None THEN h1
                          ELSE [h1 EXCEPT ![o] = DefaultedOptions(@)]
               /\ pc' = [pc EXCEPT ![c] = "awaitClient"]
               /\ UNCHANGED <<result, returned>>
          ELSE /\ heap' = h1
               /\ pc' = [pc EXCEPT ![c] = "done"]
               /\ IF ConfigConflict(h1, o, singletonGoogleAuthOptions)
                  THEN /\ result' = [result EXCEPT ![c] = "ConfigConflictError"]
                       /\ UNCHANGED returned
                  ELSE /\ result' = [result EXCEPT ![c] = "ok"]
                       /\ returned' = [returned EXCEPT ![c] = instance]
    /\ UNCHANGED << instance, singletonGoogleAuthOptions, instances, microtasks,
                    createOrder, slotWrites >>
    /\ UNCHANGED varsS

\* create(), lines 42-43: getClient resolved, the instance is constructed and
\* create's promise resolves; the caller's continuation is queued.
createReturns(c) ==
    /\ pc[c] = "awaitClient"
    /\ instances' = instances \cup {c}
    /\ pc' = [pc EXCEPT ![c] = "createReturned"]
    /\ microtasks' = Append(microtasks, c)
    /\ createOrder' = Append(createOrder, c)
    /\ UNCHANGED << instance, singletonGoogleAuthOptions, heap, googleAuthOptions,
                    result, returned, populatedAtEntry, supplied, slotWrites,
                    overlapped >>
    /\ UNCHANGED varsS

\* create(), line 42: getClient rejected; the rejection travels up unchanged.
createThrows(c) ==
    /\ pc[c] = "awaitClient"
    /\ pc' = [pc EXCEPT ![c] = "createThrew"]
    /\ microtasks' = Append(microtasks, c)
    /\ UNCHANGED << instance, singletonGoogleAuthOptions, instances, heap,
                    googleAuthOptions, result, returned, populatedAtEntry,
                    supplied, createOrder, slotWrites, overlapped >>
    /\ UNCHANGED varsS

\* getInstance() resumed after `await create(...)`: lines 54 (assignment), 55
\* and 63 in one synchronous run, or the rejection of the call.
getInstanceResumes(c) ==
    /\ microtasks # <<>>
    /\ c = Head(microtasks)
    /\ microtasks' = Tail(microtasks)
    /\ LET ok == pc[c] = "createReturned" IN
       /\ instance' = IF ok THEN SlotAfterCreate(instance, c) ELSE instance
       /\ singletonGoogleAuthOptions' =
              OptionsAfterCreate(ok, singletonGoogleAuthOptions, googleAuthOptions[c])
       /\ result' = [result EXCEPT ![c] = IF ok THEN "ok" ELSE "AuthenticationError"]
       /\ returned' = [returned EXCEPT ![c] = IF ok THEN instance' ELSE None]
       /\ slotWrites' = IF ok THEN slotWrites + 1 ELSE slotWrites
    /\ pc' = [pc EXCEPT ![c] = "done"]
    /\ UNCHANGED << instances, heap, googleAuthOptions, populatedAtEntry, supplied,
                    createOrder, overlapped >>
    /\ UNCHANGED varsS

NextI ==
    \/ \E c \in Calls, o \in 0..MaxCalls, fresh \in Configs : getInstance(c, o, fresh)
    \/ \E c \in Calls : createReturns(c)
    \/ \E c \in Calls : createThrows(c)
    \/ \E c \in Calls : getInstanceResumes(c)

(***************************************************************************)
(* Part II: sheet lookups and resolve-then-act operations                  *)
(***************************************************************************)

\* Largest number of sheets the remote file holds.
MaxSheets == 2

\* Sheet ids the service assigns; 0 is the id of a new file's first sheet.
SheetIds == 0..2

Titles == {"Data", "data"}

\* The spreadsheet the operations are called on, and the files a copy can go to.
File == "f"

DestinationFiles == {"f", "g"}

\* JavaScript null in `number | null`.
NullId == -1

\* `id` before the lookup response has arrived.
Unresolved == -2

NoTitle == ""

\* The row and column arguments callers pass (1 is the declared default).
Indexes == {0, 1}

Heights == {21}

\* The remote file's sheet lists: distinct ids, a sheet's index is its place.
SheetLists ==
    UNION { { s \in [1..n -> [sheetId : SheetIds, title : Titles]] :
                \A i, j \in 1..n : i # j => s[i].sheetId # s[j].sheetId } :
            n \in 0..MaxSheets }

\* The orders the service may list n sheets in: by rising or by falling index.
ServiceOrders(n) == {[k \in 1..n |-> k], [k \in 1..n |-> n + 1 - k]}

\* data.sheets of a spreadsheets.get response for the file s, the sheets in
\* the order p; every sheet carries properties.index, its place in the file.
SheetsResponse(s, p) ==
    [k \in 1..Len(s) |->
        [sheetId |-> s[p[k]].sheetId, title |-> s[p[k]].title, index |-> p[k] - 1]]

Min(S) == CHOOSE x \in S : \A y \in S : x <= y

getFirstSheetIdHead(listed) ==
    IF Len(listed) > 0 THEN listed[1].sheetId ELSE NullId

\* getFirstSheetId(), lines 122-130: the scan of the response.
getFirstSheetId(listed) ==
    LET hits == {i \in DOMAIN listed : listed[i].index = 0}
    IN IF Len(listed) > 0 /\ hits # {}
       THEN listed[Min(hits)].sheetId
       ELSE NullId

ToLower(t) == IF t = "Data" THEN "data" ELSE t

getSheetIdByTitleIgnoringCase(listed, title) ==
    LET hits == {i \in DOMAIN listed :
                    ToLower(listed[i].title) = ToLower(title)}
    IN IF hits # {} THEN listed[Min(hits)].sheetId ELSE NullId

\* getSheetIdByTitle(), lines 144-152: the scan of the response.
getSheetIdByTitle(listed, title) ==
    LET hits == {i \in DOMAIN listed : listed[i].title = title}
    IN IF Len(listed) > 0 /\ hits # {}
       THEN listed[Min(hits)].sheetId
       ELSE NullId

\* The metadata request of both lookups, lines 117-120 and 139-142.
getRequest(fileId) ==
    [method |-> "spreadsheets.get", spreadsheetId |-> fileId,
     fields |-> "sheets.properties"]

\* copySheet(), lines 162-168.
copySheet(fileId, id, destinationFileId) ==
    [method |-> "spreadsheets.sheets.copyTo", spreadsheetId |-> fileId,
     sheetId |-> id, destinationSpreadsheetId |-> destinationFileId]

\* renameSheetById(), lines 193-205.
renameSheetById(fileId, id, newTitle) ==
    [method |-> "spreadsheets.batchUpdate", spreadsheetId |-> fileId,
     request |-> "updateSheetProperties", sheetId |-> id, title |-> newTitle]

\* deleteSheetById(), lines 229-238.
deleteSheetById(fileId, id) ==
    [method |-> "spreadsheets.batchUpdate", spreadsheetId |-> fileId,
     request |-> "deleteSheet", sheetId |-> id]

clearFirstSheetRequestZeroForNull(fileId, id, startRowIndex, startColumnIndex) ==
    [method |-> "spreadsheets.batchUpdate", spreadsheetId |-> fileId,
     request |-> "updateCells",
     sheetId |-> IF id = NullId THEN 0 ELSE id,
     startRowIndex |-> startRowIndex, startColumnIndex |-> startColumnIndex,
     fields |-> "userEnteredValue"]

\* clearFirstSheet(), lines 262-277: the request, id as the lookup gave it.
clearFirstSheetRequest(fileId, id, startRowIndex, startColumnIndex) ==
    [method |-> "spreadsheets.batchUpdate", spreadsheetId |-> fileId,
     request |-> "updateCells", sheetId |-> id,
     startRowIndex |-> startRowIndex, startColumnIndex |-> startColumnIndex,
     fields |-> "userEnteredValue"]

\* setRowsHeight(), lines 287-304: the request, id as the lookup gave it.
setRowsHeightRequest(fileId, id, height, startRowIndex) ==
    [method |-> "spreadsheets.batchUpdate", spreadsheetId |-> fileId,
     request |-> "updateDimensionProperties", sheetId |-> id,
     dimension |-> "ROWS", startIndex |-> startRowIndex, pixelSize |-> height,
     fields |-> "pixelSize"]

NotFoundIfFalsy(id) == id = NullId \/ id = 0

\* The guard of the three ...ByTitle methods, lines 179, 216, 248.
NotFound(id) == id = NullId

ByTitleMethods == {"copySheetByTitle", "renameSheetByTitle", "deleteSheetByTitle"}

FirstSheetMethods == {"clearFirstSheet", "setRowsHeight"}

LookupMethods == {"getFirstSheetId", "getSheetIdByTitle"}

ByIdMethods == {"copySheet", "renameSheetById", "deleteSheetById"}

\* The id a method's lookup yields from the response.
Lookup(o, listed) ==
    IF o.method \in FirstSheetMethods \cup {"getFirstSheetId"}
    THEN getFirstSheetId(listed)
    ELSE getSheetIdByTitle(listed, o.title)

\* The call each method makes once it holds a sheet id: the delegation of the
\* ...ByTitle methods (lines 183, 220, 252) and the batchUpdate of the two
\* first-sheet methods.
ActingRequest(o, id) ==
    CASE o.method \in {"copySheet", "copySheetByTitle"} ->
            copySheet(File, id, o.destinationFileId)
      [] o.method \in {"renameSheetById", "renameSheetByTitle"} ->
            renameSheetById(File, id, o.newTitle)
      [] o.method \in {"deleteSheetById", "deleteSheetByTitle"} ->
            deleteSheetById(File, id)
      [] o.method = "clearFirstSheet" ->
            clearFirstSheetRequest(File, id, o.startRowIndex, o.startColumnIndex)
      [] o.method = "setRowsHeight" ->
            setRowsHeightRequest(File, id, o.height, o.startRowIndex)

RequestsAtCallUnawaited(o) ==
    IF o.method \in ByIdMethods THEN <<ActingRequest(o, o.sheetId)>>
    ELSE IF o.method \in LookupMethods THEN <<getRequest(File)>>
    ELSE <<getRequest(File), ActingRequest(o, NullId)>>

\* The requests a method has sent when it first suspends: the ...ById methods
\* send their call, every other method sends the metadata request and awaits it.
RequestsAtCall(o) ==
    IF o.method \in ByIdMethods THEN <<ActingRequest(o, o.sheetId)>>
    ELSE <<getRequest(File)>>

NoOp ==
    [method |-> "none", title |-> NoTitle, newTitle |-> NoTitle,
     destinationFileId |-> File, sheetId |-> NullId, startRowIndex |-> 1,
     startColumnIndex |-> 1, height |-> 21]

\* A method is called: it sends its first request and suspends.
Call(o) ==
    /\ op' = o
    /\ requests' = RequestsAtCall(o)
    /\ opPc' = IF o.method \in ByIdMethods THEN "act" ELSE "lookup"
    /\ sheetId' = IF o.method \in ByIdMethods THEN o.sheetId ELSE Unresolved
    /\ UNCHANGED <<sheets, existingSheets, opResult, opValue, actTarget>>
    /\ UNCHANGED varsI

getFirstSheetIdCall ==
    /\ opPc = "idle"
    /\ Call([NoOp EXCEPT !.method = "getFirstSheetId"])

getSheetIdByTitleCall ==
    /\ opPc = "idle"
    /\ \E title \in Titles :
        Call([NoOp EXCEPT !.method = "getSheetIdByTitle", !.title = title])

copySheetCall ==
    /\ opPc = "idle"
    /\ \E id \in SheetIds, dest \in DestinationFiles :
        Call([NoOp EXCEPT !.method = "copySheet", !.sheetId = id,
                          !.destinationFileId = dest])

copySheetByTitleCall ==
    /\ opPc = "idle"
    /\ \E title \in Titles, dest \in DestinationFiles :
        Call([NoOp EXCEPT !.method = "copySheetByTitle", !.title = title,
                          !.destinationFileId = dest])

renameSheetByIdCall ==
    /\ opPc = "idle"
    /\ \E id \in SheetIds, newTitle \in Titles :
        Call([NoOp EXCEPT !.method = "renameSheetById", !.sheetId = id,
                          !.newTitle = newTitle])

renameSheetByTitleCall ==
    /\ opPc = "idle"
    /\ \E title \in Titles, newTitle \in Titles :
        Call([NoOp EXCEPT !.method = "renameSheetByTitle", !.title = title,
                          !.newTitle = newTitle])

deleteSheetByIdCall ==
    /\ opPc = "idle"
    /\ \E id \in SheetIds :
        Call([NoOp EXCEPT !.method = "deleteSheetById", !.sheetId = id])

deleteSheetByTitleCall ==
    /\ opPc = "idle"
    /\ \E title \in Titles :
        Call([NoOp EXCEPT !.method = "deleteSheetByTitle", !.title = title])

clearFirstSheetCall ==
    /\ opPc = "idle"
    /\ \E row \in Indexes, col \in Indexes :
        Call([NoOp EXCEPT !.method = "clearFirstSheet", !.startRowIndex = row,
                          !.startColumnIndex = col])

setRowsHeightCall ==
    /\ opPc = "idle"
    /\ \E height \in Heights, row \in Indexes :
        Call([NoOp EXCEPT !.method = "setRowsHeight", !.height = height,
                          !.startRowIndex = row])

\* The metadata response arrives, listing the file as it is now in one of
\* the service orders, and the method runs on to its next suspension or its end.
LookupResponds ==
    /\ opPc = "lookup"
    /\ \E p \in ServiceOrders(Len(sheets)) :
         LET response == SheetsResponse(sheets, p)
             id == Lookup(op, response)
         IN /\ sheetId' = id
            /\ existingSheets' = response
            /\ IF op.method \in LookupMethods
               THEN /\ opPc' = "done"
                    /\ opResult' = "ok"
                    /\ opValue' = id
                    /\ UNCHANGED requests
               ELSE IF op.method \in ByTitleMethods /\ NotFound(id)
               THEN /\ opPc' = "done"
                    /\ opResult' = "SheetNotFoundError"
                    /\ UNCHANGED <<opValue, requests>>
               ELSE /\ opPc' = "act"
                    /\ requests' = Append(requests, ActingRequest(op, id))
                    /\ UNCHANGED <<opResult, opValue>>
    /\ UNCHANGED <<sheets, op, actTarget>>
    /\ UNCHANGED varsI

\* The metadata call fails; the error passes through the method.
LookupFails ==
    /\ opPc = "lookup"
    /\ opPc' = "done"
    /\ opResult' = "RemoteError"
    /\ UNCHANGED <<sheets, op, sheetId, existingSheets, requests, opValue, actTarget>>
    /\ UNCHANGED varsI

Position(s, id) == {i \in DOMAIN s : s[i].sheetId = id}

Without(s, i) == [k \in 1..(Len(s) - 1) |-> IF k < i THEN s[k] ELSE s[k + 1]]

FreeIds(s) == SheetIds \ {s[i].sheetId : i \in DOMAIN s}

TitleOf(s, id) == IF Position(s, id) = {} THEN NoTitle ELSE s[Min(Position(s, id))].title

\* The service carries out the method's last request on the file as it is
\* now. A rename, a delete or a copy needs its sheet to exist.
ActResponds ==
    /\ opPc = "act"
    /\ LET r == requests[Len(requests)]
           at == Position(sheets, r.sheetId)
       IN /\ actTarget' = TitleOf(sheets, r.sheetId)
          /\ CASE r.method = "spreadsheets.sheets.copyTo" ->
                    /\ at # {}
                    /\ IF r.destinationSpreadsheetId = File
                       THEN /\ Len(sheets) < MaxSheets
                            /\ \E id \in FreeIds(sheets), t \in Titles :
                                 sheets' = Append(sheets, [sheetId |-> id, title |-> t])
                       ELSE UNCHANGED sheets
               [] r.method = "spreadsheets.batchUpdate" /\ r.request = "updateSheetProperties" ->
                    /\ at # {}
                    /\ sheets' = [sheets EXCEPT ![Min(at)].title = r.title]
               [] r.method = "spreadsheets.batchUpdate" /\ r.request = "deleteSheet" ->
                    /\ at # {}
                    /\ sheets' = Without(sheets, Min(at))
               [] OTHER -> UNCHANGED sheets
    /\ opPc' = "done"
    /\ opResult' = "ok"
    /\ UNCHANGED <<op, sheetId, existingSheets, requests, opValue>>
    /\ UNCHANGED varsI

\* The method's last request fails; the error passes through the method.
ActFails ==
    /\ opPc = "act"
    /\ opPc' = "done"
    /\ opResult' = "RemoteError"
    /\ UNCHANGED <<sheets, op, sheetId, existingSheets, requests, opValue, actTarget>>
    /\ UNCHANGED varsI

\* The caller has the outcome; the facade is free for the next call.
Settled ==
    /\ opPc = "done"
    /\ op' = NoOp
    /\ opPc' = "idle"
    /\ sheetId' = Unresolved
    /\ existingSheets' = <<>>
    /\ requests' = <<>>
    /\ opResult' = "pending"
    /\ opValue' = NullId
    /\ actTarget' = NoTitle
    /\ UNCHANGED sheets
    /\ UNCHANGED varsI

\* Another writer of the file renames, deletes, adds or moves a sheet.
OtherWriterRenames ==
    /\ \E i \in DOMAIN sheets, t \in Titles :
         /\ t # sheets[i].title
         /\ sheets' = [sheets EXCEPT ![i].title = t]
    /\ UNCHANGED <<op, opPc, sheetId, existingSheets, requests, opResult, opValue, actTarget>>
    /\ UNCHANGED varsI

OtherWriterDeletes ==
    /\ \E i \in DOMAIN sheets : sheets' = Without(sheets, i)
    /\ UNCHANGED <<op, opPc, sheetId, existingSheets, requests, opResult, opValue, actTarget>>
    /\ UNCHANGED varsI

OtherWriterAdds ==
    /\ Len(sheets) < MaxSheets
    /\ \E id \in FreeIds(sheets), t \in Titles :
         sheets' = <<[sheetId |-> id, title |-> t]>> \o sheets
    /\ UNCHANGED <<op, opPc, sheetId, existingSheets, requests, opResult, opValue, actTarget>>
    /\ UNCHANGED varsI

OtherWriterMoves ==
    /\ \E i \in DOMAIN sheets :
         /\ i < Len(sheets)
         /\ sheets' = [sheets EXCEPT ![i] = sheets[i + 1], ![i + 1] = sheets[i]]
    /\ UNCHANGED <<op, opPc, sheetId, existingSheets, requests, opResult, opValue, actTarget>>
    /\ UNCHANGED varsI

NextS ==
    \/ getFirstSheetIdCall
    \/ getSheetIdByTitleCall
    \/ copySheetCall
    \/ copySheetByTitleCall
    \/ renameSheetByIdCall
    \/ renameSheetByTitleCall
    \/ deleteSheetByIdCall
    \/ deleteSheetByTitleCall
    \/ clearFirstSheetCall
    \/ setRowsHeightCall
    \/ LookupResponds
    \/ LookupFails
    \/ ActResponds
    \/ ActFails
    \/ Settled
    \/ OtherWriterRenames
    \/ OtherWriterDeletes
    \/ OtherWriterAdds
    \/ OtherWriterMoves

(***************************************************************************)
(* Specifications                                                          *)
(***************************************************************************)

\* No getInstance call made yet, the statics unset; no method running.
InitSheets ==
    /\ instance = None
    /\ singletonGoogleAuthOptions = None
    /\ instances = {}
    /\ heap = <<>>
    /\ pc = [c \in Calls |-> "idle"]
    /\ googleAuthOptions = [c \in Calls |-> None]
    /\ result = [c \in Calls |-> "pending"]
    /\ returned = [c \in Calls |-> None]
    /\ microtasks = <<>>
    /\ populatedAtEntry = [c \in Calls |-> FALSE]
    /\ supplied = [c \in Calls |-> <<>>]
    /\ createOrder = <<>>
    /\ slotWrites = 0
    /\ overlapped = FALSE
    /\ sheets \in SheetLists
    /\ op = NoOp
    /\ opPc = "idle"
    /\ sheetId = Unresolved
    /\ existingSheets = <<>>
    /\ requests = <<>>
    /\ opResult = "pending"
    /\ opValue = NullId
    /\ actTarget = NoTitle

InitInstance ==
    /\ instance = None
    /\ singletonGoogleAuthOptions = None
    /\ instances = {}
    /\ heap = <<>>
    /\ pc = [c \in Calls |-> "idle"]
    /\ googleAuthOptions = [c \in Calls |-> None]
    /\ result = [c \in Calls |-> "pending"]
    /\ returned = [c \in Calls |-> None]
    /\ microtasks = <<>>
    /\ populatedAtEntry = [c \in Calls |-> FALSE]
    /\ supplied = [c \in Calls |-> <<>>]
    /\ createOrder = <<>>
    /\ slotWrites = 0
    /\ overlapped = FALSE
    /\ sheets = <<>>
    /\ op = NoOp
    /\ opPc = "idle"
    /\ sheetId = Unresolved
    /\ existingSheets = <<>>
    /\ requests = <<>>
    /\ opResult = "pending"
    /\ opValue = NullId
    /\ actTarget = NoTitle

vars == << varsI, varsS >>

\* The singleton calls alone, the facade's sheet methods not in use.
SpecInstance == InitInstance /\ [][NextI]_vars

\* The sheet methods of one instance, no getInstance call in progress.
SpecSheets == InitSheets /\ [][NextS]_vars

(***************************************************************************)
(* Properties of create / getInstance, stated for SpecInstance             *)
(***************************************************************************)

\* C1: a getInstance(cfg) call that finds the singleton populated, with cfg
\* supplied and its serialized form different from that of the recorded
\* options, fails with the config-conflict error and changes nothing: the
\* slot, the recorded options (reference and contents) and the set of
\* instances constructed are what they were.
C1_ConflictLeavesSingleton ==
    [][\A c \in Calls :
         ( /\ pc[c] = "idle"
           /\ pc'[c] # "idle"
           /\ instance # None
           /\ googleAuthOptions'[c] # None
           /\ JSONstringify(heap', googleAuthOptions'[c])
                 # JSONstringify(heap, singletonGoogleAuthOptions) )
         => /\ pc'[c] = "done"
            /\ result'[c] = "ConfigConflictError"
            /\ returned'[c] = None
            /\ instance' = instance
            /\ singletonGoogleAuthOptions' = singletonGoogleAuthOptions
            /\ instances' = instances
            /\ \A r \in DOMAIN heap : heap'[r] = heap[r]
      ]_vars

\* C1 witness: a call passing a config was refused while the singleton was
\* set and options were recorded for it.
C1_Witness ==
    \E c \in Calls :
        /\ result[c] = "ConfigConflictError"
        /\ populatedAtEntry[c]
        /\ googleAuthOptions[c] # None
        /\ singletonGoogleAuthOptions # None
        /\ instance # None

\* C2: in a run whose calls do not overlap, once a call p has populated the
\* singleton, a later call that passes no config, or a config whose
\* serialized form equals that of the config p passed (as p passed it),
\* resolves with p's instance and no further instance is constructed.
C2_EqualOrAbsentConfigReturnsInstance ==
    ~overlapped =>
        \A p, c \in Calls :
            ( /\ p < c
              /\ pc[p] = "done"
              /\ pc[c] = "done"
              /\ ~populatedAtEntry[p]
              /\ result[p] = "ok"
              /\ \/ googleAuthOptions[c] = None
                 \/ /\ googleAuthOptions[p] # None
                    /\ JSONtext(supplied[c]) = JSONtext(supplied[p]) )
            => /\ result[c] = "ok"
               /\ returned[c] = returned[p]
               /\ instances = {p}

\* C6: two calls that both began with the slot empty and both resolved were
\* each given the instance their own create() built: two distinct instances,
\* two constructions, two assignments to the slot.
C6_RacingFirstCallsGetDistinctInstances ==
    \A c, d \in Calls :
        ( /\ c # d
          /\ pc[c] = "done" /\ pc[d] = "done"
          /\ ~populatedAtEntry[c] /\ ~populatedAtEntry[d]
          /\ result[c] = "ok" /\ result[d] = "ok" )
        => /\ returned[c] = c
           /\ returned[d] = d
           /\ {c, d} \subseteq instances
           /\ slotWrites >= 2

\* C6 witness: two first-time calls overlapped and resolved with different
\* instances.
C6_Witness ==
    \E c, d \in Calls :
        /\ c # d
        /\ overlapped
        /\ pc[c] = "done" /\ pc[d] = "done"
        /\ ~populatedAtEntry[c] /\ ~populatedAtEntry[d]
        /\ result[c] = "ok" /\ result[d] = "ok"
        /\ returned[c] # returned[d]
        /\ slotWrites = 2

\* C8: a call whose create() failed rejects with that error and leaves the
\* statics alone: while no create() has succeeded the slot and the recorded
\* options stay unset however many attempts failed, no call is refused for a
\* config conflict, and every call that found the slot empty went on to
\* create() (it ends resolved or with the authentication error).
C8_FailedCreateLeavesSingletonEmpty ==
    /\ \A c \in Calls :
          result[c] = "AuthenticationError"
          => /\ ~populatedAtEntry[c]
             /\ returned[c] = None
             /\ instance # c
             /\ c \notin instances
    /\ slotWrites = 0
          => /\ instance = None
             /\ singletonGoogleAuthOptions = None
             /\ \A c \in Calls : result[c] # "ConfigConflictError"
    /\ \A c \in Calls :
          (pc[c] = "done" /\ ~populatedAtEntry[c])
          => result[c] \in {"ok", "AuthenticationError"}

\* C8 witness: after a failed attempt a later call, passing another config,
\* created the singleton.
C8_Witness ==
    \E c, d \in Calls :
        /\ c < d
        /\ result[c] = "AuthenticationError"
        /\ googleAuthOptions[c] # None
        /\ googleAuthOptions[d] # None
        /\ JSONtext(supplied[c]) # JSONtext(supplied[d])
        /\ result[d] = "ok"
        /\ instance = d
        /\ singletonGoogleAuthOptions = googleAuthOptions[d]

\* C9: only a call that found the slot populated is refused for a config
\* conflict; a call that found it empty and whose create() returned resolves
\* whatever its config; the recorded options are always those of the call
\* whose instance is in the slot; and once no continuation is pending the slot
\* holds the instance whose create() returned last.
C9_GuardOnlyWhenPopulatedLastCreateWins ==
    /\ \A c \in Calls : result[c] = "ConfigConflictError" => populatedAtEntry[c]
    /\ \A c \in Calls :
          (pc[c] = "done" /\ ~populatedAtEntry[c] /\ c \in instances)
          => result[c] = "ok"
    /\ instance # None => singletonGoogleAuthOptions = googleAuthOptions[instance]
    /\ instance = None => singletonGoogleAuthOptions = None
    /\ (microtasks = <<>> /\ createOrder # <<>>)
          => instance = createOrder[Len(createOrder)]

\* C9 witness: two overlapping first-time calls with differently serialized
\* configs both resolved, and the statics are those of the later create().
C9_Witness ==
    \E c, d \in Calls :
        /\ c # d
        /\ ~populatedAtEntry[c] /\ ~populatedAtEntry[d]
        /\ googleAuthOptions[c] # None /\ googleAuthOptions[d] # None
        /\ JSONtext(supplied[c]) # JSONtext(supplied[d])
        /\ result[c] = "ok" /\ result[d] = "ok"
        /\ createOrder = <<c, d>>
        /\ instance = d
        /\ singletonGoogleAuthOptions = googleAuthOptions[d]

(***************************************************************************)
(* Properties of the sheet methods, stated for SpecSheets                  *)
(***************************************************************************)

\* The sheets of a response that carry the title, by place in the response.
Titled(listed, title) == {i \in DOMAIN listed : listed[i].title = title}

\* The remote call of the ...ById method that corresponds to a ...ByTitle one.
ByIdCall(o, id) ==
    CASE o.method = "copySheetByTitle" -> copySheet(File, id, o.destinationFileId)
      [] o.method = "renameSheetByTitle" -> renameSheetById(File, id, o.newTitle)
      [] o.method = "deleteSheetByTitle" -> deleteSheetById(File, id)

\* C3: once the lookup of copySheetByTitle, renameSheetByTitle or
\* deleteSheetByTitle has answered: if no listed sheet has the title, the
\* method has failed with the not-found error having sent the metadata
\* request only; otherwise it has sent, after the metadata request, exactly
\* the call copySheet / renameSheetById / deleteSheetById sends for the id of
\* the first listed sheet with that title and the same other arguments.
C3_ByTitleFailsOrDelegates ==
    (op.method \in ByTitleMethods /\ sheetId # Unresolved)
    => LET hits == Titled(existingSheets, op.title) IN
       IF hits = {}
       THEN /\ opPc = "done"
            /\ opResult = "SheetNotFoundError"
            /\ requests = <<getRequest(File)>>
       ELSE /\ opResult # "SheetNotFoundError"
            /\ requests = << getRequest(File),
                             ByIdCall(op, existingSheets[Min(hits)].sheetId) >>

\* C3 witness: a rename by title found its sheet, which has id 0, in a file
\* of two sheets and the rename went through.
C3_Witness ==
    /\ op.method = "renameSheetByTitle"
    /\ opPc = "done"
    /\ opResult = "ok"
    /\ Len(existingSheets) = 2
    /\ sheetId = 0
    /\ requests[2] = renameSheetById(File, 0, op.newTitle)

\* C4: getFirstSheetId resolves with null exactly when the listed sheets are
\* none, and otherwise with the id of the listed sheet whose index is 0.
C4_FirstSheetIdNullIffEmpty ==
    (op.method = "getFirstSheetId" /\ opPc = "done" /\ opResult = "ok")
    => /\ (opValue = NullId) <=> (existingSheets = <<>>)
       /\ existingSheets # <<>>
             => \E i \in DOMAIN existingSheets :
                   /\ existingSheets[i].index = 0
                   /\ existingSheets[i].sheetId = opValue

\* C4 witness: the sheet with index 0 was not listed first and its id was
\* the result.
C4_Witness ==
    /\ op.method = "getFirstSheetId"
    /\ opPc = "done"
    /\ opResult = "ok"
    /\ Len(existingSheets) = 2
    /\ existingSheets[2].index = 0
    /\ opValue = existingSheets[2].sheetId

\* C5: getSheetIdByTitle resolves with null exactly when no listed sheet has
\* the queried title, character for character; otherwise with the id of the
\* listed sheet that has it and comes before every other that has it.
C5_SheetIdByTitleExactFirstMatch ==
    (op.method = "getSheetIdByTitle" /\ opPc = "done" /\ opResult = "ok")
    => /\ (opValue = NullId)
             <=> (\A i \in DOMAIN existingSheets : existingSheets[i].title # op.title)
       /\ \A i \in DOMAIN existingSheets :
             ( /\ existingSheets[i].title = op.title
               /\ \A j \in 1..(i - 1) : existingSheets[j].title # op.title )
             => opValue = existingSheets[i].sheetId

\* C5 witness: two listed sheets have the queried title and the first one's
\* id was the result.
C5_Witness ==
    /\ op.method = "getSheetIdByTitle"
    /\ opPc = "done"
    /\ Len(existingSheets) = 2
    /\ existingSheets[1].title = op.title
    /\ existingSheets[2].title = op.title
    /\ opValue = existingSheets[1].sheetId

\* C7: a resolve-then-act method sends the metadata request first and nothing
\* else until the response is in; its acting call comes second and carries the
\* id taken from that response, whatever the file looks like by then.
C7_LookupThenActOnLookupTimeId ==
    (op.method \in ByTitleMethods \cup FirstSheetMethods)
    => /\ requests # <<>> => requests[1] = getRequest(File)
       /\ opPc = "lookup" => (requests = <<getRequest(File)>> /\ sheetId = Unresolved)
       /\ Len(requests) <= 2
       /\ Len(requests) = 2
             => /\ sheetId # Unresolved
                /\ requests[2].method # "spreadsheets.get"
                /\ requests[2].sheetId = Lookup(op, existingSheets)

\* C7 witness: a delete by title went through on a sheet that, when the
\* service carried the delete out, had another title than the one asked for.
C7_Witness ==
    /\ op.method = "deleteSheetByTitle"
    /\ opPc = "done"
    /\ opResult = "ok"
    /\ actTarget # NoTitle
    /\ actTarget # op.title

\* C10: clearFirstSheet and setRowsHeight never fail with the not-found
\* error; once the lookup has answered they have sent the batch update with
\* the lookup's result as sheet id, null when no sheet was listed; they end
\* having sent the metadata request only when that request failed, and then
\* with its error.
C10_FirstSheetMethodsSendNullId ==
    (op.method \in FirstSheetMethods)
    => /\ opResult # "SheetNotFoundError"
       /\ sheetId # Unresolved
             => /\ Len(requests) = 2
                /\ requests[2].method = "spreadsheets.batchUpdate"
                /\ requests[2].sheetId =
                      (IF existingSheets = <<>> THEN NullId
                       ELSE getFirstSheetId(existingSheets))
       /\ (opPc = "done" /\ Len(requests) < 2)
             => /\ opResult = "RemoteError"
                /\ sheetId = Unresolved
                /\ requests = <<getRequest(File)>>

\* C10 witness: clearFirstSheet on a file listing no sheet sent its batch
\* update with a null sheet id and the call went through.
C10_Witness ==
    /\ op.method = "clearFirstSheet"
    /\ opPc = "done"
    /\ opResult = "ok"
    /\ existingSheets = <<>>
    /\ Len(requests) = 2
    /\ requests[2].sheetId = NullId

====
